---- MODULE Spec2Model ----
(***************************************************************************)
(* AI PDF Simplifier (src/app.py, src/pdf_text_extractor.py).              *)
(*                                                                         *)
(* A Python string is a sequence of tokens.  A token is one character      *)
(* ("SP" blank, "NL" newline, "*", "-"), a run of n letters ("w5"), or a   *)
(* piece of one of the section delimiters of the prompt:                   *)
(*   "D1"       "=== SECTION 1: SIMPLIFIED TEXT ==="                       *)
(*   "P2" "T2"  "=== SECTION 2"  ": BULLET POINT SUMMARY ==="              *)
(*   "P3" "T3"  "=== SECTION 3"  ": GLOSSARY ==="                          *)
(* so that the searches of the handler for the short prefix                *)
(* "=== SECTION 2" and for the whole delimiter are different searches.     *)
(* The inputs never put "-" between two letter runs, so the hyphen         *)
(* break points of textwrap never arise.                                   *)
(***************************************************************************)
EXTENDS Integers, Sequences, FiniteSets, TLC

\* ------------------------------------------------------------------------
\* Bounds of the inputs
\* ------------------------------------------------------------------------
\* words of the longest "simplified" body the generation service returns
MaxWords == 45
\* three-line items of the longest bullet body
MaxItems == 14

\* ------------------------------------------------------------------------
\* Program constants
\* ------------------------------------------------------------------------
PageHeight == 792
TopMargin == 50
line_height == 14
HeadingGap == 25
BlockGap == 10
BottomThreshold == 60
ParagraphWidth == 100
BulletWidth == 95
LeftMargin == 40

S1 == <<"D1">>
S2Prefix == <<"P2">>
S2 == <<"P2", "T2">>
S3Prefix == <<"P3">>
S3 == <<"P3", "T3">>

\* ------------------------------------------------------------------------
\* Python str operations on token sequences
\* ------------------------------------------------------------------------
IsSpace(t) == t \in {"SP", "NL"}

Drop(s, n) == SubSeq(s, n + 1, Len(s))

Take(s, n) == SubSeq(s, 1, n)

\* str.find(sep) + 1: the index of the first occurrence of sep in s, 0 when
\* there is none
Find(s, sep) ==
    LET hits == {i \in 1..(Len(s) - Len(sep) + 1) : SubSeq(s, i, i + Len(sep) - 1) = sep}
    IN IF hits = {} THEN 0 ELSE CHOOSE i \in hits : \A j \in hits : i <= j

\* str.split(sep): the list of the parts between the occurrences of sep
RECURSIVE Split(_, _)
Split(s, sep) ==
    LET i == Find(s, sep)
    IN IF i = 0 THEN <<s>>
       ELSE <<Take(s, i - 1)>> \o Split(Drop(s, i + Len(sep) - 1), sep)

\* str.replace(sep, ""): every occurrence of sep removed
RECURSIVE Remove(_, _)
Remove(s, sep) ==
    LET i == Find(s, sep)
    IN IF i = 0 THEN s
       ELSE Take(s, i - 1) \o Remove(Drop(s, i + Len(sep) - 1), sep)

\* str.lstrip(): the text from its first character that is not whitespace
LStrip(s) ==
    LET keep == {i \in 1..Len(s) : ~IsSpace(s[i])}
    IN IF keep = {} THEN <<>>
       ELSE Drop(s, (CHOOSE i \in keep : \A j \in keep : i <= j) - 1)

\* str.rstrip(): the text up to its last character that is not whitespace
RStrip(s) ==
    LET keep == {i \in 1..Len(s) : ~IsSpace(s[i])}
    IN IF keep = {} THEN <<>>
       ELSE Take(s, CHOOSE i \in keep : \A j \in keep : i >= j)

\* str.strip()
Strip(s) == RStrip(LStrip(s))

\* str.lstrip("*- ")
RECURSIVE LStripMarkers(_)
LStripMarkers(s) ==
    IF s # <<>> /\ Head(s) \in {"*", "-", "SP"}
    THEN LStripMarkers(Tail(s)) ELSE s

\* ------------------------------------------------------------------------
\* Characters of a token
\* ------------------------------------------------------------------------
WordLen(t) ==
    CASE t = "w1" -> 1 [] t = "w2" -> 2 [] t = "w3" -> 3 [] t = "w4" -> 4
      [] t = "w5" -> 5 [] t = "w6" -> 6 [] t = "w7" -> 7 [] t = "w8" -> 8
      [] t = "w10" -> 10 [] t = "w40" -> 40 [] t = "w60" -> 60
      [] t = "w61" -> 61 [] t = "w62" -> 62 [] t = "w230" -> 230
      [] OTHER -> 1

\* the characters of a delimiter piece, as letter runs and blanks
Expand(t) ==
    CASE t = "D1" -> <<"w3", "SP", "w7", "SP", "w2", "SP", "w10", "SP", "w4", "SP", "w3">>
      [] t = "P2" -> <<"w3", "SP", "w7", "SP", "w1">>
      [] t = "T2" -> <<"w1", "SP", "w6", "SP", "w5", "SP", "w7", "SP", "w3">>
      [] t = "P3" -> <<"w3", "SP", "w7", "SP", "w1">>
      [] t = "T3" -> <<"w1", "SP", "w8", "SP", "w3">>
      [] OTHER -> <<t>>

\* the text with every delimiter piece spelled out (by halves, to keep the
\* evaluation shallow)
RECURSIVE ExpandAll(_)
ExpandAll(s) ==
    IF Len(s) = 0 THEN <<>>
    ELSE IF Len(s) = 1 THEN Expand(s[1])
    ELSE ExpandAll(Take(s, Len(s) \div 2)) \o ExpandAll(Drop(s, Len(s) \div 2))

\* len(s)
RECURSIVE CharLen(_)
CharLen(s) ==
    IF Len(s) = 0 THEN 0
    ELSE IF Len(s) = 1
    THEN (IF Expand(s[1]) = s THEN WordLen(s[1]) ELSE CharLen(Expand(s[1])))
    ELSE CharLen(Take(s, Len(s) \div 2)) + CharLen(Drop(s, Len(s) \div 2))

\* ------------------------------------------------------------------------
\* textwrap.wrap (break_long_words and drop_whitespace at their defaults).
\* A chunk is a number: n > 0 a word of n characters, n < 0 a run of -n
\* whitespace characters, 0 the empty string.  A line is its chunks.
\* ------------------------------------------------------------------------
Abs(n) == IF n < 0 THEN 0 - n ELSE n

RECURSIVE SumAbs(_)
SumAbs(c) == IF c = <<>> THEN 0 ELSE Abs(Head(c)) + SumAbs(Tail(c))

\* two chunk lists joined: runs of the same kind that meet become one chunk
JoinChunks(a, b) ==
    IF a # <<>> /\ b # <<>> /\ ((a[Len(a)] < 0) <=> (b[1] < 0))
    THEN Take(a, Len(a) - 1) \o <<a[Len(a)] + b[1]>> \o Tail(b)
    ELSE a \o b

\* TextWrapper._split: maximal runs of whitespace and of other characters
RECURSIVE SplitChunks(_)
SplitChunks(s) ==
    IF Len(s) = 0 THEN <<>>
    ELSE IF Len(s) = 1 THEN <<IF IsSpace(s[1]) THEN 0 - 1 ELSE WordLen(s[1])>>
    ELSE JoinChunks(SplitChunks(Take(s, Len(s) \div 2)),
                    SplitChunks(Drop(s, Len(s) \div 2)))

Chunks(s) == SplitChunks(ExpandAll(s))

\* the chunks that fit the current line: cur_len + l <= width
RECURSIVE FillCount(_, _, _, _)
FillCount(c, width, i, cur_len) ==
    IF i <= Len(c) /\ cur_len + Abs(c[i]) <= width
    THEN FillCount(c, width, i + 1, cur_len + Abs(c[i]))
    ELSE i - 1

\* TextWrapper._wrap_chunks with _handle_long_word
RECURSIVE WrapChunks(_, _, _)
WrapChunks(chunks, width, lines) ==
    IF chunks = <<>> THEN lines
    ELSE LET c0 == IF chunks[1] < 0 /\ lines # <<>> THEN Tail(chunks) ELSE chunks
             n == FillCount(c0, width, 1, 0)
             fit == Take(c0, n)
             rest == Drop(c0, n)
             long == rest # <<>> /\ Abs(rest[1]) > width
             space_left == width - SumAbs(fit)
             sign == IF rest[1] < 0 THEN 0 - 1 ELSE 1
             cur1 == IF long THEN Append(fit, sign * space_left) ELSE fit
             rest1 == IF long
                      THEN <<sign * (Abs(rest[1]) - space_left)>> \o Tail(rest)
                      ELSE rest
             cur2 == IF cur1 # <<>> /\ cur1[Len(cur1)] <= 0
                     THEN Take(cur1, Len(cur1) - 1) ELSE cur1
         IN WrapChunks(rest1, width, IF cur2 # <<>> THEN Append(lines, cur2) ELSE lines)

Wrap(text, width) == WrapChunks(Chunks(text), width, <<>>)

\* ------------------------------------------------------------------------
\* Native extraction: extract_pdf_text
\* ------------------------------------------------------------------------
\* a page whose extract_text() returns content, and one where it raises
Page(content) == [ok |-> TRUE, content |-> content]

BadPage == [ok |-> FALSE, content |-> <<>>]

\* st.file_uploader returns None, st.session_state.uploaded_file_obj = None
NoFile == [name |-> "", openable |-> FALSE, pages |-> <<>>, ocr |-> <<>>]

\* the loop over pdf.pages inside the try block: the first page that raises
\* leaves the loop and the function through the except clause
RECURSIVE PagesText(_, _)
PagesText(pages, text) ==
    IF pages = <<>> THEN [failed |-> FALSE, text |-> text]
    ELSE IF ~Head(pages).ok THEN [failed |-> TRUE, text |-> <<>>]
    ELSE PagesText(Tail(pages),
                   IF Head(pages).content # <<>>
                   THEN text \o Head(pages).content \o <<"NL">>
                   ELSE text)

\* app.py: failed means st.error was called and "" returned
extract_pdf_text(uploaded_file) ==
    IF ~uploaded_file.openable THEN [failed |-> TRUE, text |-> <<>>]
    ELSE PagesText(uploaded_file.pages, <<>>)

\* pdf_text_extractor.py: failed means the error was printed and None returned
cli_extract_pdf_text(file_path) ==
    IF ~file_path.openable THEN [failed |-> TRUE, text |-> <<>>]
    ELSE PagesText(file_path.pages, <<>>)

\* ------------------------------------------------------------------------
\* The section split of the Simplify handler ("CLEAN SPLITTING")
\* ------------------------------------------------------------------------
\* output.split("=== SECTION 2")[0].replace(S1, "").strip()
split_simplified(output) == Strip(Remove(Split(output, S2Prefix)[1], S1))

\* output.split(S2)[1] exists
bullets_found(output) == Len(Split(output, S2)) >= 2

\* a faulty variant: the bullets left untrimmed
BulletsNoStrip(output) == Split(Split(output, S2)[2], S3Prefix)[1]

\* output.split(S2)[1].split("=== SECTION 3")[0].strip()
split_bullets(output) == Strip(Split(Split(output, S2)[2], S3Prefix)[1])

\* output.split(S3)[1] exists
glossary_found(output) == Len(Split(output, S3)) >= 2

\* output.split(S3)[1].strip()
split_glossary(output) == Strip(Split(output, S3)[2])

\* ------------------------------------------------------------------------
\* bullet_list: the items of a text, and an item without its list markers
\* ------------------------------------------------------------------------
RECURSIVE StripNonEmpty(_)
StripNonEmpty(parts) ==
    IF parts = <<>> THEN <<>>
    ELSE IF Strip(Head(parts)) # <<>>
    THEN <<Strip(Head(parts))>> \o StripNonEmpty(Tail(parts))
    ELSE StripNonEmpty(Tail(parts))

\* [line.strip() for line in text.split("\n") if line.strip()]
ListItems(text) == StripNonEmpty(Split(text, <<"NL">>))

\* item.lstrip("*- ").strip()
clean_item(item) == Strip(LStripMarkers(item))

\* a faulty variant: every line of an item at the glyph's indent
BulletXFlat(first) == 55

\* the x of drawString: 55 for the glyph line, 75 for the lines after it
BulletX(first) == IF first THEN 55 ELSE 75

\* the cursor at the top of a page: height - 50
TopY == PageHeight - TopMargin

\* ------------------------------------------------------------------------
\* Inputs: the documents a user uploads
\* ------------------------------------------------------------------------
DocA == [name |-> "a.pdf", openable |-> TRUE,
         pages |-> <<Page(<<"w60", "SP", "w40">>), Page(<<>>), Page(<<"w7">>)>>,
         ocr |-> <<>>]

\* another document under the same file name
DocA2 == [name |-> "a.pdf", openable |-> TRUE,
          pages |-> <<Page(<<"w40", "SP", "w62">>)>>,
          ocr |-> <<>>]

\* the second page cannot be extracted
DocB == [name |-> "b.pdf", openable |-> TRUE,
         pages |-> <<Page(<<"w60", "SP", "w61">>), BadPage, Page(<<"w62">>)>>,
         ocr |-> <<>>]

\* a file pdfplumber cannot open
DocC == [name |-> "c.pdf", openable |-> FALSE, pages |-> <<>>,
         ocr |-> <<"w40", "SP", "w5">>]

\* a scan: hardly any text layer, text an OCR pass would recognise
DocD == [name |-> "d.pdf", openable |-> TRUE,
         pages |-> <<Page(<<>>), Page(<<"SP", "w7", "SP">>)>>,
         ocr |-> <<"w60", "NL", "w62">>]

Docs == {DocA, DocA2, DocB, DocC, DocD}

\* ------------------------------------------------------------------------
\* Inputs: the questions, and what the generation service answers
\* ------------------------------------------------------------------------
Questions == {<<"SP">>, <<"w5", "SP", "w3">>}

Replies == {<<"w7">>, <<"w4", "SP", "w4">>}

\* n times the word t, blanks between
Words(n, t) == [i \in 1..(2 * n - 1) |-> IF i % 2 = 1 THEN t ELSE "SP"]

RECURSIVE Repeat(_, _)
Repeat(n, s) == IF n = 0 THEN <<>> ELSE s \o Repeat(n - 1, s)

\* a section body as the service lays it out: blank lines around its text
Pad(core) == <<"NL">> \o core \o <<"SP", "NL", "NL">>

\* the text of section 1: n words, one to a wrapped line
ParaCore(n) == Words(n, "w60")

ParaCores == {ParaCore(1), ParaCore(MaxWords)}

Item1 == <<"-", "SP", "w5", "SP", "w7">>

Item3 == <<"*", "SP", "w60", "SP", "w61", "SP", "w62">>

ItemLong == <<"-", "SP", "w230">>

ItemMarkers == <<"-", "-", "-">>

\* list items of one, three and three lines
BulletsShort == Item1 \o <<"NL", "NL">> \o ItemLong \o <<"NL", "SP", "SP">> \o Item3

\* a list that runs over the page
BulletsLong == Item1 \o Repeat(MaxItems, <<"NL">> \o Item3)

\* a list with a markdown rule between two items
BulletsRule == Item1 \o <<"NL">> \o ItemMarkers \o <<"NL">> \o Item1

\* a summary that mentions the next section
BulletsMention == Item1 \o <<"NL">> \o <<"-", "SP", "w3", "SP">> \o S3Prefix \o <<"SP", "w5">>

BulletCores == {BulletsShort, BulletsLong, BulletsRule}

\* "**Term**: Meaning"
GlossaryCore == <<"*", "*", "w4", "*", "*", "w1", "SP", "w7", "NL",
                  "*", "*", "w6", "*", "*", "w1", "SP", "w60", "SP", "w40">>

GlossaryCores == {GlossaryCore}

\* the response the prompt asks for
Full(a, b, c) == S1 \o Pad(a) \o S2 \o Pad(b) \o S3 \o Pad(c)

Responses ==
    { Full(a, b, c) : a \in ParaCores, b \in BulletCores, c \in GlossaryCores }
    \cup { \* section 3 is missing
           S1 \o Pad(ParaCore(1)) \o S2 \o Pad(BulletsShort),
           \* section 3 under another title
           S1 \o Pad(ParaCore(1)) \o S2 \o Pad(BulletsShort) \o S3Prefix
              \o <<"w1", "SP", "w5">> \o Pad(GlossaryCore),
           \* section 2 is missing
           S1 \o Pad(ParaCore(1)) \o S3 \o Pad(GlossaryCore),
           \* no delimiter at all
           Pad(ParaCore(1)),
           \* a sentence ahead of section 1
           <<"w5", "SP", "w4", "NL">> \o Full(ParaCore(1), BulletsShort, GlossaryCore),
           \* a body that names a delimiter
           Full(ParaCore(1), BulletsMention, GlossaryCore) }

\* ------------------------------------------------------------------------
\* State
\* ------------------------------------------------------------------------
VARIABLES
    program,            \* "app" (streamlit run app.py) or "cli" (pdf_text_extractor.py)
    cli_path,           \* cli: the file the script was given
    cli_text,           \* cli: <<text>> once the text is saved, <<>> before and on failure
    uploaded_file,      \* the file in the st.file_uploader widget
    raw_text,           \* st.session_state.raw_text
    uploaded_file_obj,  \* st.session_state.uploaded_file_obj
    chat_answer,        \* st.session_state.chat_answer
    clicked,            \* the widget that caused this run of the script
    gen,                \* generate_content in this run: "none", "ok", "fail"
    genCalls,           \* calls of generate_content in this run
    errors,             \* calls of st.error in this run
    output,             \* response.text
    simplified, bullets, glossary,
    displayed,          \* the three sections were written to the page
    pdf_file,           \* the draws of the finished document, <<>> when there is none
    pc,                 \* "idle", or the place inside generate_pdf
    y, page,            \* the cursor, the number of the current page
    draws,              \* the drawString calls made so far
    list_items, item,   \* bullet_list: the items, the index of the next one
    lines               \* the wrapped lines the running loop has yet to draw

vars == <<program, cli_path, cli_text, uploaded_file, raw_text, uploaded_file_obj, chat_answer,
          clicked, gen, genCalls, errors, output, simplified, bullets, glossary,
          displayed, pdf_file, pc, y, page, draws, list_items, item, lines>>

session == <<uploaded_file, raw_text, uploaded_file_obj, chat_answer>>

render == <<y, page, draws, list_items, item, lines>>

sections == <<output, simplified, bullets, glossary, displayed>>

Init ==
    /\ program \in {"app", "cli"}
    /\ cli_path = NoFile
    /\ cli_text = <<>>
    /\ uploaded_file = NoFile
    /\ raw_text = <<>>
    /\ uploaded_file_obj = NoFile
    /\ chat_answer = <<>>
    /\ clicked = "none"
    /\ gen = "none"
    /\ genCalls = 0
    /\ errors = 0
    /\ output = <<>> /\ simplified = <<>> /\ bullets = <<>> /\ glossary = <<>>
    /\ displayed = FALSE
    /\ pdf_file = <<>>
    /\ pc = "idle"
    /\ y = TopY /\ page = 1 /\ draws = <<>>
    /\ list_items = <<>> /\ item = 1 /\ lines = <<>>

\* what a run of the script starts from: nothing on the page, no canvas
FreshRender ==
    /\ y' = TopY /\ page' = 1 /\ draws' = <<>>
    /\ list_items' = <<>> /\ item' = 1 /\ lines' = <<>>

FreshSections ==
    /\ output' = <<>> /\ simplified' = <<>> /\ bullets' = <<>> /\ glossary' = <<>>
    /\ displayed' = FALSE

\* ------------------------------------------------------------------------
\* The upload handler, which every run of the script goes through
\* ------------------------------------------------------------------------
\* uploaded_file_obj is None or uploaded_file_obj.name != uploaded_file.name
IsNewFile(f, obj) == obj = NoFile \/ obj.name # f.name

\* the session state after "if uploaded_file:" ... st.success
UploadHandler(f) ==
    IF f # NoFile /\ IsNewFile(f, uploaded_file_obj)
    THEN [obj |-> f, raw |-> extract_pdf_text(f).text,
          errs |-> IF extract_pdf_text(f).failed THEN 1 ELSE 0]
    ELSE [obj |-> uploaded_file_obj, raw |-> raw_text, errs |-> 0]

\* the user puts a file into the uploader
Upload(f) ==
    /\ program = "app" /\ pc = "idle"
    /\ f # uploaded_file
    /\ uploaded_file' = f
    /\ uploaded_file_obj' = UploadHandler(f).obj
    /\ raw_text' = UploadHandler(f).raw
    /\ errors' = UploadHandler(f).errs
    /\ clicked' = "upload"
    /\ gen' = "none" /\ genCalls' = 0
    /\ pdf_file' = <<>>
    /\ FreshSections /\ FreshRender
    /\ UNCHANGED <<program, cli_path, cli_text, chat_answer, pc>>

\* the user takes the file out of the uploader
RemoveFile ==
    /\ program = "app" /\ pc = "idle"
    /\ uploaded_file # NoFile
    /\ uploaded_file' = NoFile
    /\ clicked' = "remove"
    /\ errors' = 0 /\ gen' = "none" /\ genCalls' = 0
    /\ pdf_file' = <<>>
    /\ FreshSections /\ FreshRender
    /\ UNCHANGED <<program, cli_path, cli_text, raw_text, uploaded_file_obj, chat_answer, pc>>

\* ------------------------------------------------------------------------
\* The Simplify button
\* ------------------------------------------------------------------------
\* generate_content raises: the except clause reports it
SimplifyFails ==
    /\ gen' = "fail"
    /\ genCalls' = 1
    /\ errors' = UploadHandler(uploaded_file).errs + 1
    /\ FreshSections /\ FreshRender
    /\ UNCHANGED pc

\* a section delimiter is missing: [1] raises IndexError, the except clause reports it
SimplifySplitFails(r) ==
    /\ ~(bullets_found(r) /\ glossary_found(r))
    /\ gen' = "ok"
    /\ genCalls' = 1
    /\ output' = r
    /\ simplified' = <<>> /\ bullets' = <<>> /\ glossary' = <<>>
    /\ displayed' = FALSE
    /\ errors' = UploadHandler(uploaded_file).errs + 1
    /\ FreshRender
    /\ UNCHANGED pc

\* the three sections are displayed and generate_pdf is entered
SimplifySplits(r) ==
    /\ bullets_found(r) /\ glossary_found(r)
    /\ gen' = "ok"
    /\ genCalls' = 1
    /\ output' = r
    /\ simplified' = split_simplified(r)
    /\ bullets' = split_bullets(r)
    /\ glossary' = split_glossary(r)
    /\ displayed' = TRUE
    /\ errors' = UploadHandler(uploaded_file).errs
    /\ FreshRender
    /\ pc' = "h0"

ClickSimplify ==
    /\ program = "app" /\ pc = "idle"
    /\ uploaded_file # NoFile
    /\ clicked' = "simplify"
    /\ uploaded_file_obj' = UploadHandler(uploaded_file).obj
    /\ raw_text' = UploadHandler(uploaded_file).raw
    /\ pdf_file' = <<>>
    /\ \/ SimplifyFails
       \/ \E r \in Responses : SimplifySplitFails(r)
       \/ \E r \in Responses : SimplifySplits(r)
    /\ UNCHANGED <<program, cli_path, cli_text, uploaded_file, chat_answer>>

\* ------------------------------------------------------------------------
\* generate_pdf, one drawString at a time
\* ------------------------------------------------------------------------
HeadingText(at) ==
    CASE at = "h0" -> <<10, 0 - 1, 3, 0 - 1, 6>>
      [] at = "h1" -> <<2, 0 - 1, 10, 0 - 1, 4>>
      [] at = "h2" -> <<2, 0 - 1, 6, 0 - 1, 6, 0 - 1, 7>>
      [] at = "h3" -> <<2, 0 - 1, 8>>

AfterHeading(at) ==
    CASE at = "h0" -> "h1" [] at = "h1" -> "para" [] at = "h2" -> "bul2"
      [] at = "h3" -> "bul3"

\* if y < 60: c.showPage(); y = height - 50
NewPage(cursor) == cursor < BottomThreshold

DrawY(cursor) == IF NewPage(cursor) THEN TopY ELSE cursor

DrawPage(cursor, p) == IF NewPage(cursor) THEN p + 1 ELSE p

\* heading(text): drawn at the cursor as it is, then y -= 25; the block that
\* follows wraps or splits its text
Heading ==
    /\ pc \in {"h0", "h1", "h2", "h3"}
    /\ draws' = Append(draws, [x |-> LeftMargin, y |-> y, page |-> page,
                               kind |-> "heading", sec |-> pc,
                               line |-> HeadingText(pc)])
    /\ y' = y - HeadingGap
    /\ pc' = AfterHeading(pc)
    /\ lines' = IF pc = "h1" THEN Wrap(simplified, ParagraphWidth) ELSE <<>>
    /\ list_items' = CASE pc = "h2" -> ListItems(bullets)
                       [] pc = "h3" -> ListItems(glossary)
                       [] OTHER -> <<>>
    /\ item' = 1
    /\ UNCHANGED <<program, cli_path, cli_text, session, clicked, gen, genCalls, errors,
                   sections, pdf_file, page>>

\* paragraph(text): one pass of the loop over the wrapped lines
ParagraphLine ==
    /\ pc = "para" /\ lines # <<>>
    /\ draws' = Append(draws, [x |-> LeftMargin, y |-> DrawY(y), page |-> DrawPage(y, page),
                               kind |-> "paragraph", sec |-> pc,
                               line |-> Head(lines)])
    /\ y' = DrawY(y) - line_height
    /\ page' = DrawPage(y, page)
    /\ lines' = Tail(lines)
    /\ UNCHANGED <<program, cli_path, cli_text, session, clicked, gen, genCalls, errors,
                   sections, pdf_file, pc, list_items, item>>

\* paragraph(text): y -= 10 after the loop
ParagraphEnd ==
    /\ pc = "para" /\ lines = <<>>
    /\ y' = y - BlockGap
    /\ pc' = "h2"
    /\ UNCHANGED <<program, cli_path, cli_text, session, clicked, gen, genCalls, errors,
                   sections, pdf_file, page, draws, list_items, item, lines>>

\* bullet_list: the next item is cleaned, wrapped, and its first line drawn
BulletItem ==
    /\ pc \in {"bul2", "bul3"} /\ lines = <<>> /\ item <= Len(list_items)
    /\ LET wrapped == Wrap(clean_item(list_items[item]), BulletWidth)
       IN IF wrapped = <<>>
          THEN \* wrapped[0] raises IndexError, which the Simplify handler reports
               /\ errors' = errors + 1
               /\ pc' = "idle"
               /\ UNCHANGED <<y, page, draws, lines, item>>
          ELSE /\ draws' = Append(draws, [x |-> BulletX(TRUE), y |-> DrawY(y),
                                          page |-> DrawPage(y, page),
                                          kind |-> "bullet", sec |-> pc,
                                          line |-> wrapped[1]])
               /\ y' = DrawY(y) - line_height
               /\ page' = DrawPage(y, page)
               /\ lines' = Tail(wrapped)
               /\ item' = item + 1
               /\ UNCHANGED <<errors, pc>>
    /\ UNCHANGED <<program, cli_path, cli_text, session, clicked, gen, genCalls,
                   sections, pdf_file, list_items>>

\* bullet_list: one pass of the loop over wrapped[1:]
BulletSub ==
    /\ pc \in {"bul2", "bul3"} /\ lines # <<>>
    /\ draws' = Append(draws, [x |-> BulletX(FALSE), y |-> DrawY(y),
                               page |-> DrawPage(y, page),
                               kind |-> "sub", sec |-> pc,
                               line |-> Head(lines)])
    /\ y' = DrawY(y) - line_height
    /\ page' = DrawPage(y, page)
    /\ lines' = Tail(lines)
    /\ UNCHANGED <<program, cli_path, cli_text, session, clicked, gen, genCalls, errors,
                   sections, pdf_file, pc, list_items, item>>

\* bullet_list: y -= 10 after the last item
BulletEnd ==
    /\ pc \in {"bul2", "bul3"} /\ lines = <<>> /\ item > Len(list_items)
    /\ y' = y - BlockGap
    /\ pc' = IF pc = "bul2" THEN "h3" ELSE "save"
    /\ UNCHANGED <<program, cli_path, cli_text, session, clicked, gen, genCalls, errors,
                   sections, pdf_file, page, draws, list_items, item, lines>>

\* c.save(); the buffer goes to st.download_button
Save ==
    /\ pc = "save"
    /\ pdf_file' = draws
    /\ pc' = "idle"
    /\ UNCHANGED <<program, cli_path, cli_text, session, clicked, gen, genCalls, errors,
                   sections, render>>

\* ------------------------------------------------------------------------
\* The chat: Ask and Clear
\* ------------------------------------------------------------------------
\* a faulty variant: a failed call wipes the answer on the page
AskAnswerCleared(failed, reply, old) == IF failed THEN <<>> ELSE reply

\* st.session_state.chat_answer = reply.text, skipped when generate_content raises
AskAnswer(failed, reply, old) == IF failed THEN old ELSE reply

\* the Ask button is enabled only while raw_text is not empty
ClickAsk(question) ==
    /\ program = "app" /\ pc = "idle"
    /\ raw_text # <<>>
    /\ clicked' = "ask"
    /\ uploaded_file_obj' = UploadHandler(uploaded_file).obj
    /\ raw_text' = UploadHandler(uploaded_file).raw
    /\ pdf_file' = <<>>
    /\ FreshSections /\ FreshRender
    /\ \/ \* "if ask and question.strip()" is false
          /\ Strip(question) = <<>>
          /\ gen' = "none" /\ genCalls' = 0
          /\ errors' = UploadHandler(uploaded_file).errs
          /\ UNCHANGED chat_answer
       \/ \* "if not st.session_state.raw_text": nothing left to ask about
          /\ Strip(question) # <<>>
          /\ UploadHandler(uploaded_file).raw = <<>>
          /\ gen' = "none" /\ genCalls' = 0
          /\ errors' = UploadHandler(uploaded_file).errs + 1
          /\ UNCHANGED chat_answer
       \/ \E reply \in Replies :
          /\ Strip(question) # <<>>
          /\ UploadHandler(uploaded_file).raw # <<>>
          /\ gen' = "ok" /\ genCalls' = 1
          /\ errors' = UploadHandler(uploaded_file).errs
          /\ chat_answer' = AskAnswer(FALSE, reply, chat_answer)
       \/ /\ Strip(question) # <<>>
          /\ UploadHandler(uploaded_file).raw # <<>>
          /\ gen' = "fail" /\ genCalls' = 1
          /\ errors' = UploadHandler(uploaded_file).errs + 1
          /\ chat_answer' = AskAnswer(TRUE, <<>>, chat_answer)
    /\ UNCHANGED <<program, cli_path, cli_text, uploaded_file, pc>>

\* chat_answer = "" and st.rerun(): the script runs again from the top
ClickClear ==
    /\ program = "app" /\ pc = "idle"
    /\ clicked' = "clear"
    /\ chat_answer' = <<>>
    /\ uploaded_file_obj' = UploadHandler(uploaded_file).obj
    /\ raw_text' = UploadHandler(uploaded_file).raw
    /\ errors' = UploadHandler(uploaded_file).errs
    /\ gen' = "none" /\ genCalls' = 0
    /\ pdf_file' = <<>>
    /\ FreshSections /\ FreshRender
    /\ UNCHANGED <<program, cli_path, cli_text, uploaded_file, pc>>

\* ------------------------------------------------------------------------
\* pdf_text_extractor.py run as a script
\* ------------------------------------------------------------------------
\* NoFile is a path that does not exist; None is returned when extraction fails
CliMain(file_path) ==
    /\ program = "cli"
    /\ cli_path' = file_path
    /\ cli_text' = IF file_path = NoFile \/ cli_extract_pdf_text(file_path).failed
                   THEN <<>>
                   ELSE <<cli_extract_pdf_text(file_path).text>>
    /\ UNCHANGED <<program, session, clicked, gen, genCalls, errors, sections,
                   pdf_file, pc, render>>

Next ==
    \/ \E f \in Docs : Upload(f)
    \/ RemoveFile
    \/ ClickSimplify
    \/ Heading
    \/ ParagraphLine
    \/ ParagraphEnd
    \/ BulletItem
    \/ BulletSub
    \/ BulletEnd
    \/ Save
    \/ \E q \in Questions : ClickAsk(q)
    \/ ClickClear
    \/ \E f \in Docs \cup {NoFile} : CliMain(f)

Spec == Init /\ [][Next]_vars

\* ------------------------------------------------------------------------
\* Properties
\* ------------------------------------------------------------------------
IsDelimiterPiece(t) == t \in {"D1", "P2", "T2", "P3", "T3"}

NoDelimiter(s) == \A i \in DOMAIN s : ~IsDelimiterPiece(s[i])

\* the text after the first occurrence of sep, trimmed (sep occurs in s)
TextAfter(s, sep) ==
    LET rest == SubSeq(s, Find(s, sep) + Len(sep), Len(s))
        keep == {i \in DOMAIN rest : rest[i] \notin {"SP", "NL"}}
    IN IF keep = {} THEN <<>>
       ELSE SubSeq(rest, CHOOSE i \in keep : \A j \in keep : i <= j,
                         CHOOSE i \in keep : \A j \in keep : i >= j)

\* C1: a response with the section-2 delimiter and without the section-3
\* delimiter is still split: the sections are displayed, bullets is all the
\* text after the section-2 delimiter, nothing is reported as an error, and
\* the handler ends with the PDF built.  (The glossary is then a placeholder
\* whose text the design leaves open.)
C1_MissingSection3Recovered ==
    (clicked = "simplify" /\ gen = "ok" /\ Find(output, S2) # 0 /\ Find(output, S3) = 0)
        => /\ displayed
           /\ errors = 0
           /\ bullets = TextAfter(output, S2)
           /\ (pc = "idle" => pdf_file # <<>>)

\* C2: a response without the section-2 delimiter never ends the Simplify
\* action in its error branch: the sections are displayed, with placeholders
\* for the simplified text and the bullets.
C2_MissingSection2Recovered ==
    (clicked = "simplify" /\ gen = "ok" /\ Find(output, S2) = 0)
        => (displayed /\ errors = 0)

C4_NoDrawBelowThreshold ==
    \A i \in DOMAIN draws : draws[i].y >= 60

\* the text of the pages in page order, a page that fails giving nothing
RECURSIVE FragmentsText(_)
FragmentsText(pages) ==
    IF pages = <<>> THEN <<>>
    ELSE (IF Head(pages).ok /\ Head(pages).content # <<>>
          THEN Head(pages).content \o <<"NL">> ELSE <<>>)
         \o FragmentsText(Tail(pages))

\* C5: a page that fails to extract counts as an empty fragment: the text of
\* the pages before and after it is what extraction returns.
C5_PageFailureSwallowed ==
    /\ (uploaded_file_obj # NoFile /\ uploaded_file_obj.openable)
          => raw_text = FragmentsText(uploaded_file_obj.pages)
    /\ (cli_path # NoFile /\ cli_path.openable)
          => cli_text = <<FragmentsText(cli_path.pages)>>

\* C6: when native extraction gives fewer than 80 trimmed characters, the
\* stored text is the OCR text if OCR gives any, else the native text.
C6_ShortNativeFallsBackToOcr ==
    (uploaded_file_obj # NoFile
     /\ CharLen(Strip(extract_pdf_text(uploaded_file_obj).text)) < 80)
        => raw_text = IF uploaded_file_obj.ocr # <<>>
                      THEN uploaded_file_obj.ocr
                      ELSE extract_pdf_text(uploaded_file_obj).text

\* C7: after every run of the script raw_text is the extraction of the
\* document in the uploader, also when it has the name of the one before.
C7_RawTextOfCurrentDocument ==
    (program = "app" /\ uploaded_file # NoFile)
        => raw_text = extract_pdf_text(uploaded_file).text

\* C8: a run in which generate_content fails reports the failure once, has
\* called generate_content once, shows no sections, builds no PDF, and leaves
\* chat_answer and raw_text as they were.
C8_GenerationFailureAborts ==
    [][gen' = "fail" =>
          /\ errors' = 1 /\ genCalls' = 1
          /\ ~displayed' /\ pdf_file' = <<>> /\ pc' = "idle"
          /\ chat_answer' = chat_answer
          /\ raw_text' = raw_text]_vars

\* an Ask failed while an earlier answer was on the page, and it still is
C8_Witness ==
    gen = "fail" /\ clicked = "ask" /\ errors = 1 /\ chat_answer # <<>>

\* what bullet_list is to draw for a text: per item the glyph line at 55,
\* then the other lines at 75
RECURSIVE ItemDraws(_, _)
ItemDraws(wrapped, k) ==
    IF k > Len(wrapped) THEN <<>>
    ELSE <<[kind |-> IF k = 1 THEN "bullet" ELSE "sub",
            x |-> IF k = 1 THEN 55 ELSE 75,
            line |-> wrapped[k]]>> \o ItemDraws(wrapped, k + 1)

RECURSIVE ItemsDraws(_)
ItemsDraws(items) ==
    IF items = <<>> THEN <<>>
    ELSE ItemDraws(Wrap(clean_item(Head(items)), 95), 1) \o ItemsDraws(Tail(items))

\* the draws of one block of the document: kind, x and line of each
BlockDraws(sec) ==
    LET InBlock(d) == d.sec = sec
        block == SelectSeq(draws, InBlock)
    IN [i \in DOMAIN block |-> [kind |-> block[i].kind, x |-> block[i].x,
                                line |-> block[i].line]]

\* C9: bullet_list draws each item's first wrapped line with the glyph at 55
\* and its other lines at 75, in wrap order; a line after the first is 14
\* below the line before it on the same page, or at the top of the next page
\* when that would be below 60; the cursor is 14 below the line just drawn.
C9_BulletItemLayout ==
    /\ \A i \in DOMAIN draws :
          /\ draws[i].kind = "bullet" => draws[i].x = 55
          /\ draws[i].kind = "sub" => draws[i].x = 75
    /\ \A i \in DOMAIN draws :
          (draws[i].kind = "sub") =>
             /\ i > 1
             /\ draws[i - 1].kind \in {"bullet", "sub"}
             /\ \/ /\ draws[i - 1].y - 14 >= 60
                   /\ draws[i].y = draws[i - 1].y - 14
                   /\ draws[i].page = draws[i - 1].page
                \/ /\ draws[i - 1].y - 14 < 60
                   /\ draws[i].y = 742
                   /\ draws[i].page = draws[i - 1].page + 1
    /\ (pc \in {"bul2", "bul3"} /\ draws[Len(draws)].kind \in {"bullet", "sub"})
          => y = draws[Len(draws)].y - 14
    /\ (pc = "h3" \/ pdf_file # <<>>) => BlockDraws("bul2") = ItemsDraws(ListItems(bullets))
    /\ pdf_file # <<>> => BlockDraws("bul3") = ItemsDraws(ListItems(glossary))

\* a finished document in which an item of three lines has its third line
\* at the top of a new page
C9_Witness ==
    /\ pdf_file # <<>>
    /\ \E i \in DOMAIN draws :
          /\ i > 2
          /\ draws[i].kind = "sub" /\ draws[i - 1].kind = "sub"
          /\ draws[i - 2].kind = "bullet"
          /\ draws[i].page = draws[i - 1].page + 1
          /\ draws[i].y = 742

\* C10: bullet_list never fails: once the sections are displayed the handler
\* ends with the finished document and without an error.
C10_BulletListCompletes ==
    (displayed /\ pc = "idle") => (pdf_file # <<>> /\ errors = 0)

====
